---- MODULE Spec2Model ----
(***************************************************************************)
(* A model of the alfredo command line interface (src/alfredo/cli.py):     *)
(* the login / logout / ruote commands, the path resolution of             *)
(* RuoteCommand.get_target, the verb dispatch of RuoteCommand.get_response *)
(* and the output projection of RuoteCommand.pluck.                        *)
(*                                                                         *)
(* Python strings are sequences of one-character strings, so that strip,   *)
(* split and the two regular expressions are computed and not assumed.     *)
(* A decoded response body is a tagged record: a scalar, a list or a dict; *)
(* an exception raised by the projection is the tagged record Raise(e).    *)
(***************************************************************************)
EXTENDS Integers, Sequences, FiniteSets, TLC

VARIABLES
    initial_file,  \* the content of '.token' before the first invocation
    token_file,    \* the content of the file '.token', or NoFile
    history,       \* the invocations completed so far, oldest first
    pc,            \* where the current invocation stands
    arguments,     \* the docopt arguments of the current invocation
    target,        \* get_target's local variable `target`
    path_idx,      \* the index of get_target's loop in arguments.path
    lookups,       \* the child lookups made on navigators, in order
    verbs,         \* the verbs invoked on navigators, in order
    input_reads,   \* how many times the property `input` was evaluated
    response,      \* the collaborator's response, or NoResponse
    stdout,        \* what was printed to standard output
    stderr,        \* what was written to standard error
    exit_code,     \* the exit status of the invocation, or NoExit
    dict_or_list,  \* pluck's first argument
    attr_list,     \* pluck's second argument
    result,        \* what pluck returned or raised
    pluck_pc       \* "call" before pluck is applied, "returned" after

cli_vars == <<initial_file, token_file, history, pc, arguments, target, path_idx, lookups,
              verbs, input_reads, response, stdout, stderr, exit_code>>
pluck_vars == <<dict_or_list, attr_list, result, pluck_pc>>
vars == <<cli_vars, pluck_vars>>

----------------------------------------------------------------------------
(* Bounds of the model. *)

MaxListLen == 2
MaxSelectors == 2
MaxPathLen == 2
MaxInvocations == 2

----------------------------------------------------------------------------
(* Python strings. *)

\* the characters str.strip() removes under Python 3, as far as a string
\* of the model can hold them: space, tab, line feed, carriage return, form
\* feed, vertical tab and the separators \x1c, \x1d, \x1e and \x1f (it
\* also removes \x85, \xa0 and the Unicode spaces, characters outside the
\* ASCII alphabet of the model's strings)
Whitespace == {" ", "\t", "\n", "\r", "\f", "",
               "", "", "", ""}
Digits == {"0", "1", "2", "3", "4", "5", "6", "7", "8", "9"}

DigitValue(c) ==
    CASE c = "0" -> 0 [] c = "1" -> 1 [] c = "2" -> 2 [] c = "3" -> 3
      [] c = "4" -> 4 [] c = "5" -> 5 [] c = "6" -> 6 [] c = "7" -> 7
      [] c = "8" -> 8 [] c = "9" -> 9

RECURSIVE LStripOf(_, _)
LStripOf(s, chars) ==
    IF s # <<>> /\ Head(s) \in chars THEN LStripOf(Tail(s), chars) ELSE s

RECURSIVE RStripOf(_, _)
RStripOf(s, chars) ==
    IF s # <<>> /\ s[Len(s)] \in chars
    THEN RStripOf(SubSeq(s, 1, Len(s) - 1), chars)
    ELSE s

LStrip(s) == LStripOf(s, Whitespace)
RStrip(s) == RStripOf(s, Whitespace)

\* str.strip()
Strip(s) == RStrip(LStrip(s))

\* str.split(sep) for a one-character separator: never empty, "" gives [""]
RECURSIVE Split(_, _)
Split(s, sep) ==
    IF \E i \in 1..Len(s) : s[i] = sep
    THEN LET i == CHOOSE i \in 1..Len(s) :
                      s[i] = sep /\ \A j \in 1..(i - 1) : s[j] # sep
         IN  <<SubSeq(s, 1, i - 1)>> \o Split(SubSeq(s, i + 1, Len(s)), sep)
    ELSE <<s>>

\* the value of a non-empty string of decimal digits
RECURSIVE DecimalValue(_)
DecimalValue(s) ==
    IF Len(s) = 1 THEN DigitValue(s[1])
    ELSE 10 * DecimalValue(SubSeq(s, 1, Len(s) - 1)) + DigitValue(s[Len(s)])

\* the characters int() ignores around the digits of an ASCII string:
\* unlike str.strip() it rejects \x1c, \x1d, \x1e and \x1f
IntSpace == {" ", "\t", "\n", "\r", "\f", ""}

\* int(s) for decimal digits between characters of IntSpace; pluck_list
\* calls it only on a selector that '^[0-9]+$' has accepted
int(s) == DecimalValue(RStripOf(LStripOf(s, IntSpace), IntSpace))

----------------------------------------------------------------------------
(* Decoded values and exceptions. *)

Scalar(n) == [t |-> "scalar", v |-> n]
List(s) == [t |-> "list", v |-> s]
\* a mapping whose keys are strings
Dict(f) == [t |-> "dict", keys |-> "str", v |-> f]
\* a mapping whose keys are integers, as YAML and JSON documents may hold
IntDict(f) == [t |-> "dict", keys |-> "int", v |-> f]
None == [t |-> "none", v |-> 0]
Raise(e) == [t |-> "raise", v |-> e]

IsRaise(x) == x.t = "raise"

\* The first exception of a sequence of evaluations made in order, if any.
FirstRaise(rs) ==
    LET i == CHOOSE i \in 1..Len(rs) :
                 IsRaise(rs[i]) /\ \A j \in 1..(i - 1) : ~IsRaise(rs[j])
    IN  rs[i]

AnyRaise(rs) == \E i \in 1..Len(rs) : IsRaise(rs[i])

----------------------------------------------------------------------------
(* RuoteCommand.pluck and its helpers. *)

\* re.search('^[0-9]+$', s): decimal digits up to the end of s, or up to
\* a line feed that ends s ($ also matches just before it)
IsIndex(s) ==
    LET digits == IF s # <<>> /\ s[Len(s)] = "\n"
                  THEN SubSeq(s, 1, Len(s) - 1) ELSE s
    IN  Len(digits) > 0 /\ \A i \in 1..Len(digits) : digits[i] \in Digits

\* target_list[n] for an integer n
ListItem(target_list, n) ==
    LET len == Len(target_list.v)
    IN  IF 0 <= n /\ n < len THEN target_list.v[n + 1]
        ELSE IF n < 0 /\ -len <= n THEN target_list.v[len + n + 1]
        ELSE Raise("IndexError")

\* target_dict[key] for a string key, which equals no integer key
DictItem(target_dict, key) ==
    IF target_dict.t = "dict"
    THEN IF target_dict.keys = "str" /\ key \in DOMAIN target_dict.v
         THEN target_dict.v[key]
         ELSE Raise("KeyError")
    ELSE Raise("TypeError")

RECURSIVE pluck_dict_dot(_, _)
pluck_dict_dot(target_dict, attr_dot_list) ==
    IF Len(attr_dot_list) > 1
    THEN LET item == DictItem(target_dict, Strip(attr_dot_list[1]))
         IN  IF IsRaise(item) THEN item
             ELSE pluck_dict_dot(item, Tail(attr_dot_list))
    ELSE IF Len(attr_dot_list) = 1
    THEN DictItem(target_dict, Strip(attr_dot_list[1]))
    ELSE target_dict

\* KeptKeys without its filter `if key != ''`
KeptKeys_NoFilter(list) == list

\* the selectors the dict comprehension of pluck_dict keeps
KeptKeys(list) == SelectSeq(list, LAMBDA key : key # <<>>)

RECURSIVE pluck(_, _)
RECURSIVE pluck_list(_, _)
RECURSIVE pluck_dict(_, _)

pluck(value, list) ==
    IF list = <<>> THEN value
    ELSE IF value.t = "list" THEN pluck_list(value, list)
    ELSE pluck_dict(value, list)

\* pluck_list broadcasting only the first selector over the items
pluck_list_FirstSelector(target_list, list) ==
    IF Len(list) = 1 /\ IsIndex(list[1])
    THEN ListItem(target_list, int(list[1]))
    ELSE LET items == [i \in 1..Len(target_list.v) |->
                          pluck(target_list.v[i], <<list[1]>>)]
         IN  IF AnyRaise(items) THEN FirstRaise(items) ELSE List(items)

pluck_list(target_list, list) ==
    IF Len(list) = 1 /\ IsIndex(list[1])
    THEN ListItem(target_list, int(list[1]))
    ELSE LET items == [i \in 1..Len(target_list.v) |->
                          pluck(target_list.v[i], list)]
         IN  IF AnyRaise(items) THEN FirstRaise(items) ELSE List(items)

pluck_dict(target_dict, list) ==
    IF Len(list) = 1
    THEN pluck_dict_dot(target_dict, Split(list[1], "."))
    ELSE IF Len(list) > 1
    THEN LET kept == KeptKeys(list)
             items == [i \in 1..Len(kept) |-> pluck(target_dict, <<kept[i]>>)]
             last(k) == CHOOSE i \in 1..Len(kept) :
                            Strip(kept[i]) = k
                            /\ \A j \in (i + 1)..Len(kept) : Strip(kept[j]) # k
         IN  IF AnyRaise(items) THEN FirstRaise(items)
             ELSE Dict([k \in {Strip(kept[i]) : i \in 1..Len(kept)} |->
                           items[last(k)]])
    ELSE None

----------------------------------------------------------------------------
(* The inputs of the projection. *)

Scalars == {Scalar(1), Scalar(2)}
Keys == {<<"a">>, <<"b">>, <<>>}

SeqsUpTo(S, n) == UNION {[1..k -> S] : k \in 0..n}
DictsOver(K, S) == UNION {[D -> S] : D \in SUBSET K}

FlatValues ==
    Scalars
    \cup {List(s) : s \in SeqsUpTo(Scalars, MaxListLen)}
    \cup {Dict(f) : f \in DictsOver(Keys, Scalars)}

Inner == {Scalar(1),
          List(<<Scalar(1), Scalar(2)>>),
          Dict([k \in {<<"a">>} |-> Scalar(1)]),
          Dict([k \in {<<"a">>, <<"b">>} |-> Scalar(2)]),
          Dict([k \in {<<"b">>} |-> List(<<Scalar(2)>>)])}

Values ==
    FlatValues
    \cup {List(s) : s \in SeqsUpTo(Inner, MaxListLen)}
    \cup {Dict(f) : f \in DictsOver({<<"a">>, <<"b">>}, Inner)}

Selectors == {<<>>, <<" ">>, <<"a">>, <<"b">>, <<" ", "a", "\n">>,
              <<"a", ".", "b">>, <<"b", ".", "0">>, <<"0">>, <<"1">>,
              <<"1", "\n">>, <<"-", "1">>}

SelectorLists == SeqsUpTo(Selectors, MaxSelectors)

----------------------------------------------------------------------------
(* The collaborator: the resource navigators of the alfredo library and   *)
(* the responses of their verbs.                                           *)

NoToken == "<no token>"
Tokens == {"t1", "t2"}
ExitCodes == {0, 1, 2}

\* a navigator: the token it was built with and the lookups that led to it
Ruote(token) == [token |-> token, steps |-> <<>>]

ChildNames == {<<"a">>, <<"a", ":", "b">>, <<"b", ":", "a">>}
KeyedNames == {<<"a">>}

\* the child `name` of a navigator, or a lookup failure
GetChild(nav, name) ==
    IF name \in ChildNames
    THEN [ok |-> TRUE, nav |-> [nav EXCEPT !.steps = Append(@, <<name>>)]]
    ELSE [ok |-> FALSE, nav |-> nav]

\* the child `name` of a navigator called with `key`, or a lookup failure
GetChildByKey(nav, name, key) ==
    IF name \in KeyedNames
    THEN [ok |-> TRUE, nav |-> [nav EXCEPT !.steps = Append(@, <<name, key>>)]]
    ELSE [ok |-> FALSE, nav |-> nav]

Bodies == {Dict([k \in {<<"a">>, <<"b">>} |-> Scalar(1)]),
           List(<<Dict([k \in {<<"a">>} |-> Scalar(1)]),
                  Dict([k \in {<<"a">>} |-> Scalar(2)])>>)}

RuoteResponses == [kind : {"ruote"}, exit_code : ExitCodes, body : Bodies]

LoginResponses ==
    [kind : {"login"}, ok : {TRUE}, exit_code : ExitCodes, token : Tokens]
    \cup [kind : {"login"}, ok : {FALSE}, exit_code : ExitCodes,
          token : {NoToken}]

----------------------------------------------------------------------------
(* Command: the token file and the input. *)

NoFile == "<no file>"
NoExit == -1
NoResponse == [kind |-> "none"]
NoArguments == [command |-> "none"]
UnknownPath == "Unknown path\n"

\* what is written to standard output: the prompt of input_from_stdin, and
\* the values handed to print (a value stands for its text)
EnterInput == [kind |-> "write", text |-> "Enter input:\n"]
Printed(x) == [kind |-> "print", value |-> x]

\* Command.is_logged_in
is_logged_in == token_file # NoFile

\* Command.token
token == IF is_logged_in THEN token_file ELSE NoToken

\* docopt's value of an option that was not given
NotGiven == "<not given>"

\* the truth value of an option: false when not given and when given as ''
IsSet(option) == option # NotGiven /\ option # ""

EmptyDict == Dict([k \in {} |-> None])

\* the JSON / YAML documents of the model and what yaml.safe_load makes of
\* them
DocA == "{a: 1}"
DocB == "{b: 2}"
SafeLoad(doc) ==
    CASE doc = "" -> None
      [] doc = "null" -> None
      [] doc = "0" -> Scalar(0)
      [] doc = "5" -> Scalar(5)
      [] doc = "[]" -> List(<<>>)
      [] doc = "{}" -> EmptyDict
      [] doc = "{1: 2}" -> IntDict([k \in {1} |-> Scalar(2)])
      [] doc = DocA -> Dict([k \in {<<"a">>} |-> Scalar(1)])
      [] doc = DocB -> Dict([k \in {<<"b">>} |-> Scalar(2)])

\* the truth value of a decoded value (the left operand of `or {}`)
Truthy(x) ==
    CASE x.t = "none" -> FALSE
      [] x.t = "scalar" -> x.v # 0
      [] x.t = "list" -> x.v # <<>>
      [] x.t = "dict" -> DOMAIN x.v # {}

\* Command.input_from_argv
input_from_argv(args) == SafeLoad(args.input)

\* Command.input_from_stdin: a document that is false stands for {}
input_from_stdin(args) ==
    LET doc == SafeLoad(args.stdin.data)
    IN  IF Truthy(doc) THEN doc ELSE EmptyDict

\* Command.input
input(args) ==
    IF IsSet(args.input) THEN input_from_argv(args)
    ELSE input_from_stdin(args)

\* what evaluating Command.input writes to standard output
InputPrompt(args) ==
    IF ~IsSet(args.input) /\ args.stdin.isatty THEN <<EnterInput>> ELSE <<>>

\* verb(**x) raises TypeError unless x is a mapping whose keys are all
\* strings
IsKeywords(x) == x.t = "dict" /\ x.keys = "str"

Invocation(command, ok, tok) == [command |-> command, ok |-> ok, token |-> tok]

\* a new process: no invocation is running and another one may start
MayStart == pc \in {"idle", "exited"} /\ Len(history) < MaxInvocations

----------------------------------------------------------------------------
(* LoginCommand.run and LogoutCommand.run. *)

\* LoginCommand.run writing the token whatever response.ok says
Login_WriteAlways(sources) ==
    /\ MayStart
    /\ \E src \in sources, r \in LoginResponses :
         LET args == [command |-> "login", input |-> src[1], stdin |-> src[2]]
         IN  /\ arguments' = args
             /\ IF IsKeywords(input(args))
                THEN /\ verbs' = <<[nav |-> [token |-> NoToken,
                                             steps |-> <<(<<"sso">>),
                                                         (<<"token_by_email">>)>>],
                                    verb |-> "create",
                                    payload |-> input(args)]>>
                     /\ response' = r
                     /\ token_file' = r.token
                     /\ stdout' = InputPrompt(args)
                                     \o (IF r.ok THEN <<>> ELSE <<Printed(r)>>)
                     /\ exit_code' = r.exit_code
                     /\ history' = Append(history,
                                          Invocation("login", r.ok, r.token))
                ELSE /\ verbs' = <<>>
                     /\ response' = NoResponse
                     /\ token_file' = token_file
                     /\ stdout' = InputPrompt(args)
                     /\ exit_code' = 1
                     /\ history' = Append(history,
                                          Invocation("login", FALSE, NoToken))
    /\ input_reads' = 1
    /\ pc' = "exited"
    /\ target' = Ruote(NoToken)
    /\ path_idx' = 0
    /\ lookups' = <<>>
    /\ stderr' = <<>>
    /\ UNCHANGED <<initial_file, pluck_vars>>

\* LoginCommand.run; create(**self.input) raises TypeError on an input
\* that is not a mapping with string keys, and the uncaught exception ends
\* the process with status 1
Login(sources) ==
    /\ MayStart
    /\ \E src \in sources, r \in LoginResponses :
         LET args == [command |-> "login", input |-> src[1], stdin |-> src[2]]
         IN  /\ arguments' = args
             /\ IF IsKeywords(input(args))
                THEN /\ verbs' = <<[nav |-> [token |-> NoToken,
                                             steps |-> <<(<<"sso">>),
                                                         (<<"token_by_email">>)>>],
                                    verb |-> "create",
                                    payload |-> input(args)]>>
                     /\ response' = r
                     /\ token_file' = IF r.ok THEN r.token ELSE token_file
                     /\ stdout' = InputPrompt(args)
                                     \o (IF r.ok THEN <<>> ELSE <<Printed(r)>>)
                     /\ exit_code' = r.exit_code
                     /\ history' = Append(history,
                                          Invocation("login", r.ok, r.token))
                ELSE /\ verbs' = <<>>
                     /\ response' = NoResponse
                     /\ token_file' = token_file
                     /\ stdout' = InputPrompt(args)
                     /\ exit_code' = 1
                     /\ history' = Append(history,
                                          Invocation("login", FALSE, NoToken))
    /\ input_reads' = 1
    /\ pc' = "exited"
    /\ target' = Ruote(NoToken)
    /\ path_idx' = 0
    /\ lookups' = <<>>
    /\ stderr' = <<>>
    /\ UNCHANGED <<initial_file, pluck_vars>>

\* LogoutCommand.run returning 0 in both cases
Logout_AlwaysZero ==
    /\ MayStart
    /\ arguments' = [command |-> "logout"]
    /\ token_file' = NoFile
    /\ exit_code' = 0
    /\ history' = Append(history, Invocation("logout", FALSE, NoToken))
    /\ pc' = "exited"
    /\ target' = Ruote(NoToken)
    /\ path_idx' = 0
    /\ lookups' = <<>>
    /\ verbs' = <<>>
    /\ input_reads' = 0
    /\ response' = NoResponse
    /\ stdout' = <<>>
    /\ stderr' = <<>>
    /\ UNCHANGED <<initial_file, pluck_vars>>

Logout ==
    /\ MayStart
    /\ arguments' = [command |-> "logout"]
    /\ token_file' = NoFile
    /\ exit_code' = IF is_logged_in THEN 0 ELSE 1
    /\ history' = Append(history, Invocation("logout", FALSE, NoToken))
    /\ pc' = "exited"
    /\ target' = Ruote(NoToken)
    /\ path_idx' = 0
    /\ lookups' = <<>>
    /\ verbs' = <<>>
    /\ input_reads' = 0
    /\ response' = NoResponse
    /\ stdout' = <<>>
    /\ stderr' = <<>>
    /\ UNCHANGED <<initial_file, pluck_vars>>

----------------------------------------------------------------------------
(* RuoteCommand.get_target. *)

NoMatch == [matched |-> FALSE, name |-> <<>>, key |-> <<>>]

\* re.search('([^:]+):(.+)', p): the leftmost place where a run of
\* non-colons is followed by a colon and at least one more character that
\* is not a line feed; group 1 is the run from that place to the colon,
\* group 2 the text after the colon up to the next line feed or the end
\* ('.' matches every character but the line feed, [^:] every one but ':')
ReSearch(p) ==
    LET colon(s) == CHOOSE c \in (s + 1)..Len(p) :
                        p[c] = ":" /\ \A j \in s..(c - 1) : p[j] # ":"
        starts == {s \in 1..Len(p) :
                      /\ p[s] # ":"
                      /\ \E c \in (s + 1)..(Len(p) - 1) :
                             /\ p[c] = ":" /\ \A j \in s..(c - 1) : p[j] # ":"
                             /\ p[c + 1] # "\n"}
    IN  IF starts = {} THEN NoMatch
        ELSE LET s == CHOOSE s \in starts : \A o \in starts : s <= o
                 c == colon(s)
                 end == CHOOSE e \in (c + 1)..Len(p) :
                            /\ \A j \in (c + 1)..e : p[j] # "\n"
                            /\ (e = Len(p) \/ p[e + 1] = "\n")
             IN  [matched |-> TRUE,
                  name |-> SubSeq(p, s, c - 1),
                  key |-> SubSeq(p, c + 1, end)]

Lookup(nav, kind, name, key, ok) ==
    [nav |-> nav, kind |-> kind, name |-> name, key |-> key, ok |-> ok]

\* the body of get_target's loop without the inner except clause
ResolveToken_NoFallback(nav, p) ==
    LET call == ReSearch(p)
        keyed == GetChildByKey(nav, call.name, call.key)
        plain == GetChild(nav, p)
    IN  IF call.matched
        THEN [ok |-> keyed.ok, target |-> keyed.nav,
              lookups |-> <<Lookup(nav, "keyed", call.name, call.key,
                                   keyed.ok)>>]
        ELSE [ok |-> plain.ok, target |-> plain.nav,
              lookups |-> <<Lookup(nav, "plain", p, <<>>, plain.ok)>>]

\* the body of get_target's loop for the token p on the navigator nav
ResolveToken(nav, p) ==
    LET call == ReSearch(p)
        keyed == GetChildByKey(nav, call.name, call.key)
        plain == GetChild(nav, p)
    IN  IF call.matched
        THEN IF keyed.ok
             THEN [ok |-> TRUE, target |-> keyed.nav,
                   lookups |-> <<Lookup(nav, "keyed", call.name, call.key,
                                        TRUE)>>]
             ELSE [ok |-> plain.ok, target |-> plain.nav,
                   lookups |-> <<Lookup(nav, "keyed", call.name, call.key,
                                        FALSE),
                                 Lookup(nav, "plain", p, <<>>, plain.ok)>>]
        ELSE [ok |-> plain.ok, target |-> plain.nav,
              lookups |-> <<Lookup(nav, "plain", p, <<>>, plain.ok)>>]

\* the lookups of the token at index i of the path
Stamp(ls, i) == [j \in 1..Len(ls) |-> [idx |-> i, lookup |-> ls[j]]]

Flags == {"", "-C", "-R", "-U", "-D", "-X"}

\* the docopt arguments of `alfredo ruote`: at most one operation flag
RuoteArguments(flag, path, i, sin, o) ==
    [command |-> "ruote", C |-> flag = "-C", R |-> flag = "-R",
     U |-> flag = "-U", D |-> flag = "-D", X |-> flag = "-X",
     path |-> path, input |-> i, stdin |-> sin, output |-> o]

\* RuoteCommand.run up to the first line of get_target
RuoteStart(paths, sources, outputs) ==
    /\ MayStart
    /\ \E flag \in Flags, path \in paths, src \in sources, o \in outputs :
         arguments' = RuoteArguments(flag, path, src[1], src[2], o)
    /\ target' = Ruote(token)
    /\ path_idx' = 1
    /\ pc' = "get_target"
    /\ lookups' = <<>>
    /\ verbs' = <<>>
    /\ input_reads' = 0
    /\ response' = NoResponse
    /\ stdout' = <<>>
    /\ stderr' = <<>>
    /\ exit_code' = NoExit
    /\ UNCHANGED <<initial_file, token_file, history, pluck_vars>>

\* one round of get_target's loop that resolves its token
GetTargetStep ==
    /\ pc = "get_target"
    /\ path_idx <= Len(arguments.path)
    /\ LET r == ResolveToken(target, arguments.path[path_idx])
       IN  /\ r.ok
           /\ target' = r.target
           /\ lookups' = lookups \o Stamp(r.lookups, path_idx)
    /\ path_idx' = path_idx + 1
    /\ UNCHANGED <<initial_file, token_file, history, pc, arguments, verbs,
                   input_reads, response, stdout, stderr, exit_code,
                   pluck_vars>>

\* the outer except clause of get_target without its exit(1)
GetTargetUnknown_NoExit ==
    /\ pc = "get_target"
    /\ path_idx <= Len(arguments.path)
    /\ LET r == ResolveToken(target, arguments.path[path_idx])
       IN  /\ ~r.ok
           /\ lookups' = lookups \o Stamp(r.lookups, path_idx)
    /\ stderr' = Append(stderr, UnknownPath)
    /\ path_idx' = path_idx + 1
    /\ UNCHANGED <<initial_file, token_file, history, pc, arguments, target,
                   verbs, input_reads, response, stdout, exit_code,
                   pluck_vars>>

\* one round of get_target's loop that fails: "Unknown path", exit(1)
GetTargetUnknown ==
    /\ pc = "get_target"
    /\ path_idx <= Len(arguments.path)
    /\ LET r == ResolveToken(target, arguments.path[path_idx])
       IN  /\ ~r.ok
           /\ lookups' = lookups \o Stamp(r.lookups, path_idx)
    /\ stderr' = Append(stderr, UnknownPath)
    /\ exit_code' = 1
    /\ pc' = "exited"
    /\ history' = Append(history, Invocation("ruote", FALSE, NoToken))
    /\ UNCHANGED <<initial_file, token_file, arguments, target, path_idx,
                   verbs, input_reads, response, stdout, pluck_vars>>

----------------------------------------------------------------------------
(* RuoteCommand.get_response and RuoteCommand.print_response. *)

NoPayload == None

\* the if / elif chain of get_response with -X taken for -U
SelectVerb_ReplaceIsUpdate(args) ==
    IF args.C THEN "create"
    ELSE IF args.U \/ args.X THEN "update"
    ELSE IF args.D THEN "delete"
    ELSE "retrieve"

\* the if / elif chain of get_response
SelectVerb(args) ==
    IF args.C THEN "create"
    ELSE IF args.U THEN "update"
    ELSE IF args.X THEN "replace"
    ELSE IF args.D THEN "delete"
    ELSE "retrieve"

\* the verbs that get_response calls with **self.input
TakesInput(verb) == verb \in {"create", "update", "replace"}

\* get_response once get_target has returned; verb(**self.input) raises
\* TypeError on an input that is not a mapping with string keys, before the
\* verb is called, and the uncaught exception ends the process with status 1
GetResponse ==
    /\ pc = "get_target"
    /\ path_idx > Len(arguments.path)
    /\ LET verb == SelectVerb(arguments)
           payload == IF TakesInput(verb) THEN input(arguments) ELSE NoPayload
       IN  /\ input_reads' = input_reads + (IF TakesInput(verb) THEN 1 ELSE 0)
           /\ stdout' = stdout \o (IF TakesInput(verb)
                                   THEN InputPrompt(arguments) ELSE <<>>)
           /\ IF TakesInput(verb) /\ ~IsKeywords(payload)
              THEN /\ verbs' = verbs
                   /\ response' = response
                   /\ exit_code' = 1
                   /\ pc' = "exited"
                   /\ history' = Append(history,
                                        Invocation("ruote", FALSE, NoToken))
              ELSE /\ verbs' = Append(verbs, [nav |-> target, verb |-> verb,
                                              payload |-> payload])
                   /\ \E r \in RuoteResponses : response' = r
                   /\ exit_code' = exit_code
                   /\ pc' = "print_response"
                   /\ history' = history
    /\ UNCHANGED <<initial_file, token_file, arguments, target, path_idx,
                   lookups, stderr, pluck_vars>>

\* print_output_attrs up to its print: response.native() projected
Projection(args, r) == pluck(r.body, Split(args.output, ","))

\* print_response and the return of RuoteCommand.run; an exception of the
\* projection is not caught and ends the process with status 1
PrintResponse ==
    /\ pc = "print_response"
    /\ IF arguments.output # <<>>
       THEN LET projected == Projection(arguments, response)
            IN  IF IsRaise(projected)
                THEN /\ stdout' = stdout
                     /\ exit_code' = 1
                ELSE /\ stdout' = Append(stdout, Printed(projected))
                     /\ exit_code' = response.exit_code
       ELSE /\ stdout' = Append(stdout, Printed(response))
            /\ exit_code' = response.exit_code
    /\ pc' = "exited"
    /\ history' = Append(history, Invocation("ruote", FALSE, NoToken))
    /\ UNCHANGED <<initial_file, token_file, arguments, target, path_idx,
                   lookups, verbs, input_reads, response, stderr,
                   pluck_vars>>

----------------------------------------------------------------------------
(* The inputs of the command line. *)

\* standard input: a pipe or a terminal, and the document read from it
Piped(data) == [isatty |-> FALSE, data |-> data]
Typed(data) == [isatty |-> TRUE, data |-> data]

PathTokens == {<<"a">>, <<"a", ":", "b">>, <<"b", ":", "a">>,
               <<"b", ":", "b">>, <<":", "a", ":", "b">>, <<"a", ":">>,
               <<"a", ":", ":", "b">>, <<"a", ":", "\n", "b">>,
               <<"a", ":", "b", "\n", "c">>}

\* docopt's <path>... holds at least one token
Paths == SeqsUpTo(PathTokens, MaxPathLen) \ {<<>>}
\* --input and standard input: a mapping, nothing, or a document that
\* cannot be passed as named fields, from either source
Sources == {<<NotGiven, Piped("")>>, <<NotGiven, Piped("0")>>,
            <<NotGiven, Piped("5")>>, <<NotGiven, Typed(DocB)>>,
            <<"", Typed(DocB)>>, <<DocA, Piped("")>>,
            <<"null", Typed(DocB)>>, <<"{1: 2}", Piped("")>>}
Outputs == {<<>>, <<"a", ",", "b">>}

SessionPaths == {<<(<<"a">>)>>, <<(<<"b">>)>>}
SessionOutputs == {<<>>, <<"a">>, <<"0">>}

PluckIdle ==
    /\ dict_or_list = None
    /\ attr_list = <<>>
    /\ result = None
    /\ pluck_pc = "idle"

CliIdle ==
    /\ history = <<>>
    /\ pc = "idle"
    /\ arguments = NoArguments
    /\ target = Ruote(NoToken)
    /\ path_idx = 0
    /\ lookups = <<>>
    /\ verbs = <<>>
    /\ input_reads = 0
    /\ response = NoResponse
    /\ stdout = <<>>
    /\ stderr = <<>>
    /\ exit_code = NoExit

----------------------------------------------------------------------------
(* Spec: a session of login, logout and ruote invocations, one process     *)
(* after the other, sharing the token file.                                *)

Init ==
    /\ token_file \in {NoFile} \cup Tokens
    /\ initial_file = token_file
    /\ CliIdle
    /\ PluckIdle

Next ==
    \/ Login(Sources)
    \/ Logout
    \/ RuoteStart(SessionPaths, Sources, SessionOutputs)
    \/ GetTargetStep
    \/ GetTargetUnknown
    \/ GetResponse
    \/ PrintResponse

Spec == Init /\ [][Next]_vars

----------------------------------------------------------------------------
(* RuoteSpec: one ruote invocation, over every path, flag and input.      *)

RuoteNext ==
    \/ pc = "idle" /\ RuoteStart(Paths, Sources, Outputs)
    \/ GetTargetStep
    \/ GetTargetUnknown
    \/ GetResponse
    \/ PrintResponse

RuoteSpec == Init /\ [][RuoteNext]_vars

----------------------------------------------------------------------------
(* PluckSpec: the projection applied to every value and selector list.     *)

PluckInit ==
    /\ token_file = NoFile
    /\ initial_file = NoFile
    /\ CliIdle
    /\ dict_or_list \in Values
    /\ attr_list \in SelectorLists
    /\ result = None
    /\ pluck_pc = "call"

Pluck ==
    /\ pluck_pc = "call"
    /\ result' = pluck(dict_or_list, attr_list)
    /\ pluck_pc' = "returned"
    /\ UNCHANGED <<cli_vars, dict_or_list, attr_list>>

PluckNext == Pluck

PluckSpec == PluckInit /\ [][PluckNext]_vars

----------------------------------------------------------------------------
(* Properties of the projection, checked under PluckSpec. *)

Returned == pluck_pc = "returned"

AllDigits(s) == Len(s) > 0 /\ \A i \in 1..Len(s) : s[i] \in Digits

\* an integer literal, negative literals included: decimal digits after an
\* optional minus sign, the whitespace around the selector being ignored
IntegerLiteral(s) ==
    LET t == Strip(s)
    IN  \/ AllDigits(t)
        \/ Len(t) > 1 /\ t[1] = "-" /\ AllDigits(Tail(t))

LiteralValue(s) ==
    LET t == Strip(s)
    IN  IF t[1] = "-" THEN 0 - DecimalValue(Tail(t)) ELSE DecimalValue(t)

\* C1: on a sequence, a selector list of exactly one integer literal,
\* negative literals included, returns the element at that index (-1 the
\* last one) instead of broadcasting the selector over the elements; the
\* indices stated are those the sequence has.
C1_IndexByLiteral ==
    (/\ Returned
     /\ dict_or_list.t = "list"
     /\ Len(attr_list) = 1
     /\ IntegerLiteral(attr_list[1])
     /\ ~IsRaise(ListItem(dict_or_list, LiteralValue(attr_list[1]))))
    => result = ListItem(dict_or_list, LiteralValue(attr_list[1]))

\* C2 as stated: for a key k of a mapping m, the selector list [k, ""]
\* gives what [k] alone gives, the bare value m[k]; stated here for the
\* keys that are not themselves the empty string.
C2_EmptyEntryUnwraps ==
    (/\ Returned
     /\ dict_or_list.t = "dict"
     /\ Len(attr_list) = 2
     /\ attr_list[2] = <<>>
     /\ attr_list[1] # <<>>
     /\ attr_list[1] \in DOMAIN dict_or_list.v)
    => /\ result = pluck(dict_or_list, <<attr_list[1]>>)
       /\ result = dict_or_list.v[attr_list[1]]

\* a selector that is one plain key: no dot, no whitespace at its ends
PlainKey(k) == Split(k, ".") = <<k>> /\ Strip(k) = k

\* C2 as amended: for a mapping m and a non-empty selector k, the selector
\* list [k, ""] ignores the empty entry but does not unwrap: it fails as [k]
\* alone fails, and otherwise returns the singleton mapping from the trimmed
\* k to what [k] alone returns, which is m[k] when k is a plain key of m.
C2_EmptyEntryIgnored ==
    (/\ Returned
     /\ dict_or_list.t = "dict"
     /\ Len(attr_list) = 2
     /\ attr_list[2] = <<>>
     /\ attr_list[1] # <<>>)
    => LET k == attr_list[1]
           single == pluck(dict_or_list, <<k>>)
       IN  IF IsRaise(single) THEN result = single
           ELSE /\ result.t = "dict"
                /\ DOMAIN result.v = {Strip(k)}
                /\ result.v[Strip(k)] = single
                /\ (PlainKey(k) /\ k \in DOMAIN dict_or_list.v
                      => single = dict_or_list.v[k])

C2_Witness ==
    /\ Returned
    /\ dict_or_list.t = "dict"
    /\ attr_list = <<(<<"a">>), (<<>>)>>
    /\ <<"a">> \in DOMAIN dict_or_list.v
    /\ result = Dict([k \in {<<"a">>} |-> dict_or_list.v[<<"a">>]])

\* the selectors that are not empty after trimming
NonBlank(list) == SelectSeq(list, LAMBDA key : Strip(key) # <<>>)

\* C8: on a mapping, two or more selectors give a new mapping whose keys
\* are exactly the trimmed selectors that are non-empty after trimming
\* (an empty or whitespace-only selector is skipped), each with the value of
\* the single-selector projection, a repeated key taking its last occurrence.
C8_TrimmedKeys ==
    (/\ Returned
     /\ dict_or_list.t = "dict"
     /\ Len(attr_list) >= 2)
    => LET kept == NonBlank(attr_list)
           items == [i \in 1..Len(kept) |-> pluck(dict_or_list, <<kept[i]>>)]
           last(k) == CHOOSE i \in 1..Len(kept) :
                          Strip(kept[i]) = k
                          /\ \A j \in (i + 1)..Len(kept) : Strip(kept[j]) # k
       IN  IF AnyRaise(items) THEN IsRaise(result)
           ELSE /\ result.t = "dict"
                /\ DOMAIN result.v = {Strip(kept[i]) : i \in 1..Len(kept)}
                /\ \A k \in DOMAIN result.v : result.v[k] = items[last(k)]

\* C10: on a sequence s, a non-empty selector list that is not a single
\* integer literal either fails or returns a sequence as long as s whose
\* i-th element is pluck of the i-th element of s with the same selectors;
\* and an empty selector list returns the input unchanged, whatever its shape.
C10_Broadcast ==
    /\ (/\ Returned
        /\ dict_or_list.t = "list"
        /\ attr_list # <<>>
        /\ ~(Len(attr_list) = 1 /\ IntegerLiteral(attr_list[1])))
       => \/ IsRaise(result)
          \/ /\ result.t = "list"
             /\ Len(result.v) = Len(dict_or_list.v)
             /\ \A i \in 1..Len(result.v) :
                    result.v[i] = pluck(dict_or_list.v[i], attr_list)
    /\ (Returned /\ attr_list = <<>>) => result = dict_or_list

C10_Witness ==
    /\ Returned
    /\ dict_or_list = List(<<Dict([k \in {<<"a">>} |-> Scalar(1)]),
                             Dict([k \in {<<"a">>, <<"b">>} |-> Scalar(2)])>>)
    /\ attr_list = <<(<<"a">>)>>
    /\ result = List(<<Scalar(1), Scalar(2)>>)

----------------------------------------------------------------------------
(* Properties of path resolution and verb dispatch, checked under          *)
(* RuoteSpec.                                                              *)

IsRuote == arguments.command = "ruote"

\* the lookups made for the token at index i of the path, in order
TokenLookups(i) == SelectSeq(lookups, LAMBDA l : l.idx = i)

\* get_target returned: every token of the path was resolved
Resolved == IsRuote /\ path_idx > Len(arguments.path)

\* C3: for a token name:value the keyed lookup comes first; if it fails,
\* the whole token is looked up as a plain child of the same navigator, and
\* the path is reported unknown only if that fails too; a keyed lookup
\* that succeeds is followed by no plain lookup.
C3_KeyedThenPlain ==
    IsRuote =>
      \A i \in 1..Len(arguments.path) :
        LET ls == TokenLookups(i)
            p == arguments.path[i]
            call == ReSearch(p)
        IN  (ls # <<>> /\ call.matched) =>
              LET first == ls[1].lookup
                  last == ls[Len(ls)].lookup
              IN  /\ first.kind = "keyed"
                  /\ first.name = call.name /\ first.key = call.key
                  /\ first.ok = GetChildByKey(first.nav, call.name, call.key).ok
                  /\ first.ok => Len(ls) = 1
                  /\ ~first.ok =>
                       /\ Len(ls) = 2
                       /\ last = Lookup(first.nav, "plain", p, <<>>,
                                        GetChild(first.nav, p).ok)
                  /\ (i = path_idx /\ stderr = <<UnknownPath>>) <=> ~last.ok
                  /\ (i = path_idx - 1 /\ first.ok) =>
                       target = GetChildByKey(first.nav, call.name, call.key).nav
                  /\ (i = path_idx - 1 /\ ~first.ok) =>
                       target = GetChild(first.nav, p).nav

C3_Witness ==
    /\ IsRuote
    /\ pc = "print_response"
    /\ arguments.path = <<(<<"b", ":", "a">>)>>
    /\ Len(lookups) = 2
    /\ ~lookups[1].lookup.ok /\ lookups[1].lookup.kind = "keyed"
    /\ lookups[2].lookup.ok /\ lookups[2].lookup.kind = "plain"
    /\ target.steps = <<(<<(<<"b", ":", "a">>)>>)>>

\* C4: once a token cannot be resolved, no later token is looked up, no
\* verb is invoked on any navigator, nothing is printed to standard output
\* and the invocation ends with exit status 1.
C4_FailFast ==
    \A j \in 1..Len(lookups) :
      (/\ ~lookups[j].lookup.ok
       /\ (j = Len(lookups) \/ lookups[j + 1].idx # lookups[j].idx))
      => /\ j = Len(lookups)
         /\ verbs = <<>>
         /\ input_reads = 0
         /\ response = NoResponse
         /\ stdout = <<>>
         /\ stderr = <<UnknownPath>>
         /\ pc = "exited"
         /\ exit_code = 1

C4_Witness ==
    /\ IsRuote
    /\ arguments.C
    /\ Len(arguments.path) = 2
    /\ ResolveToken(target, arguments.path[2]).ok
    /\ path_idx = 1
    /\ pc = "exited"
    /\ ~lookups[Len(lookups)].lookup.ok
    /\ verbs = <<>>

\* the flags whose verb is called with the input as named fields
ReadsInput == arguments.C \/ arguments.U \/ arguments.X

\* the invocation reads an input that cannot be passed as named fields
InputRejected == ReadsInput /\ ~IsKeywords(input(arguments))

\* what print has written to standard output
Prints == SelectSeq(stdout, LAMBDA w : w.kind = "print")

\* C5 as stated: when the path resolves, exactly one verb is invoked, on
\* the resolved target: create for -C, update for -U, replace for -X, delete
\* for -D, retrieve for -R and when no flag is set; create, update and
\* replace receive the parsed input, retrieve and delete receive nothing and
\* do not read the input.
C5_OneVerb ==
    IsRuote =>
      /\ pc = "get_target" => verbs = <<>> /\ input_reads = 0
      /\ (Resolved /\ pc \in {"print_response", "exited"}) =>
           /\ Len(verbs) = 1
           /\ verbs[1].nav = target
           /\ Len(target.steps) = Len(arguments.path)
           /\ arguments.C => verbs[1].verb = "create"
           /\ arguments.U => verbs[1].verb = "update"
           /\ arguments.X => verbs[1].verb = "replace"
           /\ arguments.D => verbs[1].verb = "delete"
           /\ arguments.R => verbs[1].verb = "retrieve"
           /\ ~(arguments.C \/ arguments.U \/ arguments.X \/ arguments.D)
                => verbs[1].verb = "retrieve"
           /\ verbs[1].verb \in {"create", "update", "replace"} =>
                /\ verbs[1].payload = input(arguments)
                /\ input_reads = 1
           /\ verbs[1].verb \in {"retrieve", "delete"} =>
                /\ verbs[1].payload = NoPayload
                /\ input_reads = 0
                /\ \A k \in 1..Len(stdout) : stdout[k] # EnterInput

\* C5 as amended: when the path resolves and the selected verb is retrieve
\* or delete, or the parsed input is a mapping whose keys are all strings,
\* exactly one verb is invoked, on the resolved target, selected and fed as
\* C5 states; when the selected verb is create, update or replace and the
\* parsed input is anything else (a scalar, a sequence, nothing, a mapping
\* with a key that is not a string), the input is read, no verb is invoked
\* on any navigator, nothing is printed and the invocation ends with exit
\* status 1.
C5_OneVerbOnMapping ==
    IsRuote =>
      /\ pc = "get_target" => verbs = <<>> /\ input_reads = 0
      /\ (Resolved /\ pc \in {"print_response", "exited"}) =>
           IF InputRejected
           THEN /\ verbs = <<>>
                /\ input_reads = 1
                /\ response = NoResponse
                /\ Prints = <<>>
                /\ pc = "exited"
                /\ exit_code = 1
           ELSE
                /\ Len(verbs) = 1
                /\ verbs[1].nav = target
                /\ Len(target.steps) = Len(arguments.path)
                /\ arguments.C => verbs[1].verb = "create"
                /\ arguments.U => verbs[1].verb = "update"
                /\ arguments.X => verbs[1].verb = "replace"
                /\ arguments.D => verbs[1].verb = "delete"
                /\ arguments.R => verbs[1].verb = "retrieve"
                /\ ~(arguments.C \/ arguments.U \/ arguments.X \/ arguments.D)
                     => verbs[1].verb = "retrieve"
                /\ verbs[1].verb \in {"create", "update", "replace"} =>
                     /\ verbs[1].payload = input(arguments)
                     /\ IsKeywords(verbs[1].payload)
                     /\ input_reads = 1
                /\ verbs[1].verb \in {"retrieve", "delete"} =>
                     /\ verbs[1].payload = NoPayload
                     /\ input_reads = 0
                     /\ \A k \in 1..Len(stdout) : stdout[k] # EnterInput

C5_Witness ==
    /\ Resolved
    /\ pc = "exited"
    /\ arguments.X
    /\ arguments.input = NotGiven /\ arguments.stdin = Typed(DocB)
    /\ verbs = <<[nav |-> target, verb |-> "replace",
                  payload |-> Dict([k \in {<<"b">>} |-> Scalar(2)])]>>

HasColon(p) == \E c \in 1..Len(p) : p[c] = ":"
FirstColon(p) == CHOOSE c \in 1..Len(p) :
                     p[c] = ":" /\ \A j \in 1..(c - 1) : p[j] # ":"

\* C9: a token that contains a colon is split at its first colon: the
\* keyed lookup is attempted with the text before the first colon as the
\* name and all the text after it as the key; the token is treated as plain
\* only when it has no such name:value form.
C9_SplitAtFirstColon ==
    IsRuote =>
      \A i \in 1..Len(arguments.path) :
        LET ls == TokenLookups(i)
            p == arguments.path[i]
        IN  (ls # <<>> /\ HasColon(p)) =>
              LET name == SubSeq(p, 1, FirstColon(p) - 1)
                  key == SubSeq(p, FirstColon(p) + 1, Len(p))
                  first == ls[1].lookup
              IN  IF name # <<>> /\ key # <<>>
                  THEN first.kind = "keyed" /\ first.name = name
                       /\ first.key = key
                  ELSE first.kind = "plain" /\ first.name = p

----------------------------------------------------------------------------
(* Properties of the token file and of the exit codes, checked under Spec. *)

Max(S) == CHOOSE x \in S : \A y \in S : y <= x

LastLogout ==
    Max({0} \cup {i \in 1..Len(history) : history[i].command = "logout"})

LoginsSince ==
    {i \in (LastLogout + 1)..Len(history) :
        history[i].command = "login" /\ history[i].ok}

\* C6: the token file exists exactly when a login has succeeded, or the
\* file was there at the start, with no logout since; after a successful
\* login it holds the token of the most recent successful login; a failed
\* login, a logout while logged out and every ruote invocation leave it as
\* it was.
C6_TokenFile ==
    /\ token_file # NoFile
         <=> (LoginsSince # {} \/ (LastLogout = 0 /\ initial_file # NoFile))
    /\ LoginsSince # {} => token_file = history[Max(LoginsSince)].token
    /\ (LoginsSince = {} /\ LastLogout = 0) => token_file = initial_file

C6_Witness ==
    /\ initial_file = NoFile
    /\ Len(history) = 2
    /\ history[1] = Invocation("login", TRUE, "t1")
    /\ history[2] = Invocation("login", FALSE, NoToken)
    /\ token_file = "t1"

\* the token file after the invocations h, by the rules of the token store
RECURSIVE FileAfter(_, _)
FileAfter(file, h) ==
    IF h = <<>> THEN file
    ELSE LET e == h[Len(h)]
             before == FileAfter(file, SubSeq(h, 1, Len(h) - 1))
         IN  IF e.command = "login" /\ e.ok THEN e.token
             ELSE IF e.command = "logout" THEN NoFile
             ELSE before

\* the token file when the invocation that has just ended started
FileBefore == FileAfter(initial_file, SubSeq(history, 1, Len(history) - 1))

LogoutExit ==
    /\ FileBefore # NoFile => exit_code = 0
    /\ FileBefore = NoFile => exit_code = 1 /\ stdout = <<>> /\ stderr = <<>>
    /\ (Len(history) >= 2 /\ history[Len(history) - 1].command = "logout")
         => exit_code = 1

\* a verb was invoked and its response received
HasResponse == response # NoResponse

\* C7 as stated: login and a ruote invocation whose path resolves exit with
\* the exit code of the response, a ruote invocation whose path does not
\* resolve with 1, a logout while logged in with 0, a logout while logged
\* out with 1 and no message; the second of two logouts in a row exits with
\* 1; stated here for the invocations that a collaborator responds to.
C7_ExitCode ==
    (pc = "exited" /\ (Resolved => HasResponse)) =>
      /\ (arguments.command = "login" /\ HasResponse)
           => exit_code = response.exit_code
      /\ arguments.command = "ruote" =>
           IF Resolved THEN exit_code = response.exit_code
           ELSE exit_code = 1
      /\ arguments.command = "logout" => LogoutExit

\* the projection asked for with -o raised
ProjectionRaised ==
    /\ arguments.output # <<>>
    /\ HasResponse
    /\ IsRaise(Projection(arguments, response))

\* C7 as amended: as C7, but an invocation exits with the exit code of the
\* response only when it gets one and prints: a login, or a ruote invocation
\* with -C, -U or -X, whose parsed input is not a mapping with string keys
\* only (a scalar, a sequence, nothing, a mapping with a key that is not a
\* string) invokes no verb,
\* and a ruote invocation whose projection asked for with -o fails does not
\* print the response; the exception is not caught and in both cases the
\* invocation ends with status 1, whatever a response reports.
C7_ExitCodeUnlessProjectionFails ==
    pc = "exited" =>
      /\ arguments.command = "login" =>
           IF IsKeywords(input(arguments))
           THEN exit_code = response.exit_code
           ELSE exit_code = 1 /\ verbs = <<>> /\ Prints = <<>>
      /\ arguments.command = "ruote" =>
           IF Resolved
           THEN IF InputRejected
                THEN exit_code = 1 /\ verbs = <<>> /\ Prints = <<>>
                ELSE IF ProjectionRaised
                THEN exit_code = 1 /\ Prints = <<>>
                ELSE exit_code = response.exit_code /\ Len(Prints) = 1
           ELSE exit_code = 1
      /\ arguments.command = "logout" => LogoutExit

C7_Witness ==
    /\ pc = "exited"
    /\ Resolved
    /\ arguments.output = <<"0">>
    /\ HasResponse
    /\ response.body.t = "dict"
    /\ response.exit_code = 0
    /\ exit_code = 1
    /\ stdout = <<EnterInput>>

====
